---------------------------- MODULE Spec2Model ----------------------------
(***************************************************************************)
(* Model of the IPFSEncryptedStorage contract (the access-controlled       *)
(* registry): its four storage variables, the FHE permission list that its *)
(* calls to FHE.allow / FHE.allowThis extend, the event log, and one       *)
(* action per external function.  Each transaction is atomic: a failed     *)
(* require reverts the whole call, so a reverting call changes nothing but *)
(* the record of the call itself (lastCall), which stands for what the     *)
(* caller observes: the revert reason or the returned value.               *)
(* Further parts: the hash codec of the contract and of the frontend       *)
(* (SpecCodec), the older two-address contract with its storeIPFSHash      *)
(* (SpecLegacy), and the frontend hook that stores and retrieves a hash    *)
(* through the codec, the encryption provider and the contract (SpecHook), *)
(* and the initialization of the encryption provider in fheUtils.ts, with  *)
(* its overlapping asynchronous calls and its subscriptions (SpecFhe).     *)
(***************************************************************************)
EXTENDS Integers, Sequences, FiniteSets, TLC

(* ------------------------------ bounds -------------------------------- *)
\* Largest number of entries the model registers.
MaxEntries == 2
\* Largest length of the event log the model produces.
MaxEvents == 3
\* Number of different character patterns the codec inputs are built from.
MaxSeed == 3
\* Largest number of characters a codec input body has beyond 46.
MaxExtra == 2

(* ------------------------- program constants -------------------------- *)
\* address(0)
NullAddr == 0
\* address(this): the contract itself, as grantee of FHE.allowThis
ThisAddr == 9

\* Externally owned accounts that sign transactions.
Users == {1, 2}
\* Every address a call may name as `user`, or an eth_call may come from.
Addresses == {NullAddr} \cup Users
\* The encrypted inputs a caller may submit: three ciphertext handles
\* (bytes32 values, abstracted to small numbers) under one proof.
\* The same input may be submitted again, and two inputs may share handles.
HandleTriples == {<<1, 2, 3>>, <<2, 3, 1>>}
\* The zero handle of a storage slot that was never written.
NoHandle == 0
\* Storage ids a call may name: 0, the issued ones, and ones never issued.
StorageIds == 0..(MaxEntries + 1)

\* Revert reasons, as in the source.
NoRevert == "ok"
ErrNotExist == "Storage ID does not exist"
ErrGrantOwner == "Only owner can grant access"
ErrRevokeOwner == "Only owner can revoke access"
ErrInvalidUser == "Invalid user address"
ErrDenied == "Access denied"
ErrProof == "Invalid input proof"

\* The error classes of the specification.
NotFound == {ErrNotExist}
Forbidden == {ErrGrantOwner, ErrRevokeOwner, ErrDenied}
InvalidReader == {ErrInvalidUser}

VARIABLES _currentId, _encryptedStorage, _authorizedUsers, _userStorageIds,
          acl, events, lastCall

\* The codec run: the input string, how far the run has come, what the
\* contract's and the frontend's conversion functions returned, and what the
\* frontend's format validator answered.
VARIABLES cHash, cStep, cContract, cFrontend, cValid

codecVars == <<cHash, cStep, cContract, cFrontend, cValid>>

\* The module fheUtils.ts: its three module variables, the initFHE() calls
\* in progress, the number of instances createInstance has returned, the
\* callbacks scheduled by setTimeout, what is known of each callback, and
\* the outcome of the last encryptAddresses or decryptAddresses call.
VARIABLES fheInstance, isInitialized, initCallbacks, initCalls, instances,
          timers, callbacks, fheLast

fheVars == <<fheInstance, isInitialized, initCallbacks, initCalls,
             instances, timers, callbacks, fheLast>>

vars == <<_currentId, _encryptedStorage, _authorizedUsers, _userStorageIds,
          acl, events, lastCall, cHash, cStep, cContract, cFrontend,
          cValid, fheInstance, isInitialized, initCallbacks, initCalls,
          instances, timers, callbacks, fheLast>>

\* The persisted state of the contract and of the encryption provider.
registryVars == <<_currentId, _encryptedStorage, _authorizedUsers,
                  _userStorageIds, acl, events>>

\* Default value of a mapping slot of type EncryptedIPFSData.
EmptyData ==
  [encryptedAddress1 |-> NoHandle, encryptedAddress2 |-> NoHandle,
   encryptedAddress3 |-> NoHandle, owner |-> NullAddr, exists |-> FALSE]

\* What the caller of the last call observed.
Call(fn, sender, storageId, user, revert, ret) ==
  [fn |-> fn, sender |-> sender, storageId |-> storageId, user |-> user,
   revert |-> revert, ret |-> ret]

\* The three handles a call of storeEncryptedIPFSData submitted.
StoreArgs(call) == call.user

\* The contract right after deployment.
RegistryInit ==
  /\ _currentId = 0
  /\ _encryptedStorage = [i \in StorageIds |-> EmptyData]
  /\ _authorizedUsers = [i \in StorageIds |-> [u \in Addresses |-> FALSE]]
  /\ _userStorageIds = [u \in Addresses |-> <<>>]
  /\ acl = {}
  /\ events = <<>>
  /\ lastCall = Call("constructor", NullAddr, 0, NullAddr, NoRevert, 0)

\* What a conversion function has produced: nothing yet.
NoResult == [revert |-> NoRevert, addrs |-> <<>>, hash |-> <<>>]

\* No codec run is in progress.
CodecIdle ==
  /\ cHash = <<>>
  /\ cStep = "idle"
  /\ cContract = NoResult
  /\ cFrontend = NoResult
  /\ cValid = FALSE

\* Bounds of the runs of fheUtils.ts: the number of initFHE() calls and of
\* callbacks handed to onFHEInitialized.
MaxInitCalls == 2
MaxCallbacks == 2

\* The value null of fheInstance.
NoInstance == 0
\* The initFHE() calls and the callbacks of a run.
InitCallIds == 1..MaxInitCalls
CallbackIds == 1..MaxCallbacks

\* fheUtils.ts right after the module is loaded: no instance, nothing
\* subscribed, no call made.
FheInit ==
  /\ fheInstance = NoInstance
  /\ isInitialized = FALSE
  /\ initCallbacks = <<>>
  /\ initCalls = [p \in InitCallIds |-> [pc |-> "idle", ret |-> NoInstance]]
  /\ instances = 0
  /\ timers = {}
  /\ callbacks = [c \in CallbackIds |->
                    [sub |-> "none", early |-> FALSE, invoked |-> 0]]
  /\ fheLast = [fn |-> "none", revert |-> NoRevert, initialized |-> FALSE,
                instance |-> NoInstance]

Init == RegistryInit /\ CodecIdle /\ FheInit

(* --------------------------- storeEncryptedIPFSData ------------------- *)
\* FHE.fromExternal: verifies the input proof and returns the handle.
fromExternalRevert(proofValid) ==
  IF proofValid THEN NoRevert ELSE ErrProof

\* Variant: the counter stops advancing after the first entry, so a later
\* call writes over entry 1.
NextStorageId_reuse(cur) == IF cur = 0 THEN 1 ELSE cur

\* Variant: the counter is read without being incremented.
NextStorageId_noIncrement(cur) == cur

\* _currentId++; storageId = _currentId
NextStorageId(cur) == cur + 1

\* Variant: the owner field is left at its default.
NewData_ownerNotSet(addr1, addr2, addr3, sender) ==
  [encryptedAddress1 |-> addr1, encryptedAddress2 |-> addr2,
   encryptedAddress3 |-> addr3, owner |-> NullAddr, exists |-> TRUE]

\* The struct written to _encryptedStorage[storageId].
NewData(addr1, addr2, addr3, sender) ==
  [encryptedAddress1 |-> addr1, encryptedAddress2 |-> addr2,
   encryptedAddress3 |-> addr3, owner |-> sender, exists |-> TRUE]

\* Variant: FHE.allowThis is not called.
StoreAllow_ownerOnly(perm, addr1, addr2, addr3, sender) ==
  perm \cup ({addr1, addr2, addr3} \X {sender})

\* FHE.allowThis on the three handles, then FHE.allow for msg.sender.
StoreAllow(perm, addr1, addr2, addr3, sender) ==
  perm \cup ({addr1, addr2, addr3} \X {ThisAddr, sender})

\* Variant: the new id is assigned to the sender's list instead of pushed.
storeEncryptedIPFSData_listAssigned(sender, addr1, addr2, addr3, proofValid) ==
  IF fromExternalRevert(proofValid) # NoRevert
  THEN /\ lastCall' = Call("storeEncryptedIPFSData", sender, 0,
                           <<addr1, addr2, addr3>>,
                           fromExternalRevert(proofValid), 0)
       /\ UNCHANGED registryVars
  ELSE LET storageId == NextStorageId(_currentId) IN
       /\ _currentId < MaxEntries
       /\ Len(events) < MaxEvents
       /\ _currentId' = storageId
       /\ _encryptedStorage' =
            [_encryptedStorage EXCEPT ![storageId] =
               NewData(addr1, addr2, addr3, sender)]
       /\ acl' = StoreAllow(acl, addr1, addr2, addr3, sender)
       /\ _userStorageIds' =
            [_userStorageIds EXCEPT ![sender] = <<storageId>>]
       /\ events' = Append(events, [name |-> "IPFSDataStored",
                                    storageId |-> storageId,
                                    user |-> sender, by |-> sender])
       /\ lastCall' = Call("storeEncryptedIPFSData", sender, storageId,
                           <<addr1, addr2, addr3>>, NoRevert, storageId)
       /\ UNCHANGED _authorizedUsers

storeEncryptedIPFSData(sender, addr1, addr2, addr3, proofValid) ==
  IF fromExternalRevert(proofValid) # NoRevert
  THEN /\ lastCall' = Call("storeEncryptedIPFSData", sender, 0,
                           <<addr1, addr2, addr3>>,
                           fromExternalRevert(proofValid), 0)
       /\ UNCHANGED registryVars
  ELSE LET storageId == NextStorageId(_currentId) IN
       /\ _currentId < MaxEntries
       /\ Len(events) < MaxEvents
       /\ _currentId' = storageId
       /\ _encryptedStorage' =
            [_encryptedStorage EXCEPT ![storageId] =
               NewData(addr1, addr2, addr3, sender)]
       /\ acl' = StoreAllow(acl, addr1, addr2, addr3, sender)
       /\ _userStorageIds' =
            [_userStorageIds EXCEPT ![sender] = Append(@, storageId)]
       /\ events' = Append(events, [name |-> "IPFSDataStored",
                                    storageId |-> storageId,
                                    user |-> sender, by |-> sender])
       /\ lastCall' = Call("storeEncryptedIPFSData", sender, storageId,
                           <<addr1, addr2, addr3>>, NoRevert, storageId)
       /\ UNCHANGED _authorizedUsers

(* ------------------------------ grantAccess --------------------------- *)
\* Variant: only the user address is validated.
grantAccessRevert_userOnly(sender, storageId, user) ==
  IF user = NullAddr THEN ErrInvalidUser ELSE NoRevert

\* Variant: a grant to a reader who is already authorized is refused.
grantAccessRevert_alreadyGranted(sender, storageId, user) ==
  IF ~_encryptedStorage[storageId].exists THEN ErrNotExist
  ELSE IF _encryptedStorage[storageId].owner # sender THEN ErrGrantOwner
  ELSE IF user = NullAddr THEN ErrInvalidUser
  ELSE IF _authorizedUsers[storageId][user] THEN "Already authorized"
  ELSE NoRevert

\* Variant: an authorized reader passes the owner check.
grantAccessRevert_readerAllowed(sender, storageId, user) ==
  IF ~_encryptedStorage[storageId].exists THEN ErrNotExist
  ELSE IF /\ _encryptedStorage[storageId].owner # sender
          /\ ~_authorizedUsers[storageId][sender] THEN ErrGrantOwner
  ELSE IF user = NullAddr THEN ErrInvalidUser
  ELSE NoRevert

\* Variant: the user address is not validated.
grantAccessRevert_nullAllowed(sender, storageId, user) ==
  IF ~_encryptedStorage[storageId].exists THEN ErrNotExist
  ELSE IF _encryptedStorage[storageId].owner # sender THEN ErrGrantOwner
  ELSE NoRevert

\* Variant: the user address is validated before the other requires.
grantAccessRevert_userFirst(sender, storageId, user) ==
  IF user = NullAddr THEN ErrInvalidUser
  ELSE IF ~_encryptedStorage[storageId].exists THEN ErrNotExist
  ELSE IF _encryptedStorage[storageId].owner # sender THEN ErrGrantOwner
  ELSE NoRevert

grantAccessRevert(sender, storageId, user) ==
  IF ~_encryptedStorage[storageId].exists THEN ErrNotExist
  ELSE IF _encryptedStorage[storageId].owner # sender THEN ErrGrantOwner
  ELSE IF user = NullAddr THEN ErrInvalidUser
  ELSE NoRevert

\* Variant: the flag of user is written for every storage id.
GrantUpdate_allEntries(auth, storageId, user) ==
  [i \in DOMAIN auth |-> [auth[i] EXCEPT ![user] = TRUE]]

\* Variant: the authorization flag is not written.
GrantUpdate_notWritten(auth, storageId, user) == auth

\* _authorizedUsers[storageId][user] = true
GrantUpdate(auth, storageId, user) ==
  [auth EXCEPT ![storageId][user] = TRUE]

\* Variant: the third handle is not allowed for user.
GrantAllow_twoHandles(perm, data, user) ==
  perm \cup ({data.encryptedAddress1, data.encryptedAddress2} \X {user})

\* FHE.allow of the entry's three handles for user.
GrantAllow(perm, data, user) ==
  perm \cup ({data.encryptedAddress1, data.encryptedAddress2,
              data.encryptedAddress3} \X {user})

\* Variant: AccessGranted is emitted only when the flag changes.
grantAccess_noEventOnRepeat(sender, storageId, user) ==
  IF grantAccessRevert(sender, storageId, user) # NoRevert
  THEN /\ lastCall' = Call("grantAccess", sender, storageId, user,
                           grantAccessRevert(sender, storageId, user), 0)
       /\ UNCHANGED registryVars
  ELSE /\ Len(events) < MaxEvents
       /\ _authorizedUsers' = GrantUpdate(_authorizedUsers, storageId, user)
       /\ acl' = GrantAllow(acl, _encryptedStorage[storageId], user)
       /\ events' = IF _authorizedUsers[storageId][user] THEN events
                    ELSE Append(events, [name |-> "AccessGranted",
                                         storageId |-> storageId,
                                         user |-> user, by |-> sender])
       /\ lastCall' = Call("grantAccess", sender, storageId, user,
                           NoRevert, 0)
       /\ UNCHANGED <<_currentId, _encryptedStorage, _userStorageIds>>

grantAccess(sender, storageId, user) ==
  IF grantAccessRevert(sender, storageId, user) # NoRevert
  THEN /\ lastCall' = Call("grantAccess", sender, storageId, user,
                           grantAccessRevert(sender, storageId, user), 0)
       /\ UNCHANGED registryVars
  ELSE /\ Len(events) < MaxEvents
       /\ _authorizedUsers' = GrantUpdate(_authorizedUsers, storageId, user)
       /\ acl' = GrantAllow(acl, _encryptedStorage[storageId], user)
       /\ events' = Append(events, [name |-> "AccessGranted",
                                    storageId |-> storageId,
                                    user |-> user, by |-> sender])
       /\ lastCall' = Call("grantAccess", sender, storageId, user,
                           NoRevert, 0)
       /\ UNCHANGED <<_currentId, _encryptedStorage, _userStorageIds>>

(* ------------------------------ revokeAccess -------------------------- *)
\* Variant: the user address is validated as in grantAccess.
revokeAccessRevert_userChecked(sender, storageId, user) ==
  IF ~_encryptedStorage[storageId].exists THEN ErrNotExist
  ELSE IF _encryptedStorage[storageId].owner # sender THEN ErrRevokeOwner
  ELSE IF user = NullAddr THEN ErrInvalidUser
  ELSE NoRevert

revokeAccessRevert(sender, storageId, user) ==
  IF ~_encryptedStorage[storageId].exists THEN ErrNotExist
  ELSE IF _encryptedStorage[storageId].owner # sender THEN ErrRevokeOwner
  ELSE NoRevert

\* Variant: the authorization flag is inverted instead of cleared.
RevokeUpdate_toggles(auth, storageId, user) ==
  [auth EXCEPT ![storageId][user] = ~@]

\* Variant: the authorization flag is not cleared.
RevokeUpdate_notCleared(auth, storageId, user) == auth

\* _authorizedUsers[storageId][user] = false
RevokeUpdate(auth, storageId, user) ==
  [auth EXCEPT ![storageId][user] = FALSE]

\* Variant: the flag is cleared before the owner is checked, and the
\* failure is reported without undoing the write.
revokeAccess_writeBeforeCheck(sender, storageId, user) ==
  IF ~_encryptedStorage[storageId].exists
  THEN /\ lastCall' = Call("revokeAccess", sender, storageId, user,
                           ErrNotExist, 0)
       /\ UNCHANGED registryVars
  ELSE /\ _authorizedUsers' = RevokeUpdate(_authorizedUsers, storageId, user)
       /\ IF _encryptedStorage[storageId].owner # sender
          THEN /\ lastCall' = Call("revokeAccess", sender, storageId, user,
                                   ErrRevokeOwner, 0)
               /\ UNCHANGED events
          ELSE /\ Len(events) < MaxEvents
               /\ events' = Append(events, [name |-> "AccessRevoked",
                                            storageId |-> storageId,
                                            user |-> user, by |-> sender])
               /\ lastCall' = Call("revokeAccess", sender, storageId, user,
                                   NoRevert, 0)
       /\ UNCHANGED <<_currentId, _encryptedStorage, _userStorageIds, acl>>

revokeAccess(sender, storageId, user) ==
  IF revokeAccessRevert(sender, storageId, user) # NoRevert
  THEN /\ lastCall' = Call("revokeAccess", sender, storageId, user,
                           revokeAccessRevert(sender, storageId, user), 0)
       /\ UNCHANGED registryVars
  ELSE /\ Len(events) < MaxEvents
       /\ _authorizedUsers' = RevokeUpdate(_authorizedUsers, storageId, user)
       /\ events' = Append(events, [name |-> "AccessRevoked",
                                    storageId |-> storageId,
                                    user |-> user, by |-> sender])
       /\ lastCall' = Call("revokeAccess", sender, storageId, user,
                           NoRevert, 0)
       /\ UNCHANGED <<_currentId, _encryptedStorage, _userStorageIds, acl>>

(* -------------------------------- views ------------------------------- *)
getEncryptedAddressesRevert(sender, storageId) ==
  IF ~_encryptedStorage[storageId].exists THEN ErrNotExist
  ELSE IF ~(\/ _encryptedStorage[storageId].owner = sender
            \/ _authorizedUsers[storageId][sender]) THEN ErrDenied
  ELSE NoRevert

\* Variant: the first two handles are returned in the wrong order.
getEncryptedAddressesRet_swapped(storageId) ==
  LET data == _encryptedStorage[storageId] IN
  <<data.encryptedAddress2, data.encryptedAddress1, data.encryptedAddress3>>

\* The three handles returned by a successful getEncryptedAddresses.
getEncryptedAddressesRet(storageId) ==
  LET data == _encryptedStorage[storageId] IN
  <<data.encryptedAddress1, data.encryptedAddress2, data.encryptedAddress3>>

getEncryptedAddresses(sender, storageId) ==
  /\ lastCall' =
       IF getEncryptedAddressesRevert(sender, storageId) # NoRevert
       THEN Call("getEncryptedAddresses", sender, storageId, NullAddr,
                 getEncryptedAddressesRevert(sender, storageId), 0)
       ELSE Call("getEncryptedAddresses", sender, storageId, NullAddr,
                 NoRevert, getEncryptedAddressesRet(storageId))
  /\ UNCHANGED registryVars

\* Variant: the existence test is missing, so the default owner
\* address(0) of an empty slot counts as an owner.
hasAccessRet_noExistsCheck(storageId, user) ==
  \/ _encryptedStorage[storageId].owner = user
  \/ _authorizedUsers[storageId][user]

\* Variant: the owner is not treated as authorized.
hasAccessRet_authorizedOnly(storageId, user) ==
  IF ~_encryptedStorage[storageId].exists THEN FALSE
  ELSE _authorizedUsers[storageId][user]

hasAccessRet(storageId, user) ==
  IF ~_encryptedStorage[storageId].exists THEN FALSE
  ELSE \/ _encryptedStorage[storageId].owner = user
       \/ _authorizedUsers[storageId][user]

hasAccess(storageId, user) ==
  /\ lastCall' = Call("hasAccess", NullAddr, storageId, user, NoRevert,
                      hasAccessRet(storageId, user))
  /\ UNCHANGED registryVars

\* Variant: the existence require is missing.
getOwnerRevert_noCheck(storageId) == NoRevert

getOwnerRevert(storageId) ==
  IF ~_encryptedStorage[storageId].exists THEN ErrNotExist ELSE NoRevert

getOwner(storageId) ==
  /\ lastCall' =
       IF getOwnerRevert(storageId) # NoRevert
       THEN Call("getOwner", NullAddr, storageId, NullAddr,
                 getOwnerRevert(storageId), 0)
       ELSE Call("getOwner", NullAddr, storageId, NullAddr, NoRevert,
                 _encryptedStorage[storageId].owner)
  /\ UNCHANGED registryVars

getUserStorageIds(user) ==
  /\ lastCall' = Call("getUserStorageIds", NullAddr, 0, user, NoRevert,
                      _userStorageIds[user])
  /\ UNCHANGED registryVars

getCurrentId ==
  /\ lastCall' = Call("getCurrentId", NullAddr, 0, NullAddr, NoRevert,
                      _currentId)
  /\ UNCHANGED registryVars

(* -------------------------------- codec ------------------------------- *)
\* A string is a sequence of code points; bytes are numbers 0..255.  A
\* uint160 (and a BigInt below 2^160) is the sequence of its 20 bytes, most
\* significant first, as in the hexadecimal form of an address.

\* Length of a hash body the codec packs.
HashLen == 46
\* Bytes in an address.
AddrBytes == 20
\* Bytes of the hash that go into the third address.
TailBytes == 6
\* Hexadecimal digits of a formatted address: padStart(40, '0').
HexLen == 40

ErrShortContract == "IPFS hash too short (need exactly 46 chars)"
ErrShortFrontend ==
  "IPFS hash too short (need exactly 46 chars after Qm prefix)"
\* The error class of the specification for a too-short identifier.
InvalidLength == {ErrShortContract, ErrShortFrontend}

\* The characters 'Q' 'm'.
QmPrefix == <<81, 109>>

\* UTF-8 encoding of one code point (TextEncoder; bytes(string) on chain).
Utf8Char(c) ==
  IF c < 128 THEN <<c>>
  ELSE IF c < 2048 THEN <<192 + (c \div 64), 128 + (c % 64)>>
  ELSE <<224 + (c \div 4096), 128 + ((c \div 64) % 64), 128 + (c % 64)>>

RECURSIVE Utf8(_)
Utf8(str) ==
  IF str = <<>> THEN <<>> ELSE Utf8Char(Head(str)) \o Utf8(Tail(str))

\* UTF-8 decoding (TextDecoder): one- and two-byte sequences; any other
\* byte decodes to U+FFFD.
RECURSIVE Utf8Decode(_)
Utf8Decode(bytes) ==
  IF bytes = <<>> THEN <<>>
  ELSE IF bytes[1] < 128 THEN <<bytes[1]>> \o Utf8Decode(Tail(bytes))
  ELSE IF /\ bytes[1] >= 194 /\ bytes[1] < 224 /\ Len(bytes) >= 2
          /\ bytes[2] >= 128 /\ bytes[2] < 192
       THEN <<(bytes[1] - 192) * 64 + (bytes[2] - 128)>>
            \o Utf8Decode(Tail(Tail(bytes)))
  ELSE <<65533>> \o Utf8Decode(Tail(bytes))

\* a | b on two bytes.
RECURSIVE ByteOr(_, _)
ByteOr(a, b) ==
  IF a = 0 THEN b
  ELSE IF b = 0 THEN a
  ELSE 2 * ByteOr(a \div 2, b \div 2)
       + (IF a % 2 = 1 \/ b % 2 = 1 THEN 1 ELSE 0)

\* The value 0 of type uint160.
Zero160 == [k \in 1..AddrBytes |-> 0]

\* Variant: the byte is shifted by (19 - i) * 8 bits.
ShiftLeft_reversed(byte, i) ==
  [k \in 1..AddrBytes |-> IF k = i + 1 THEN byte ELSE 0]

\* uint160(byte) << (i * 8): bits shifted past bit 159 are dropped.
ShiftLeft(byte, i) ==
  [k \in 1..AddrBytes |-> IF k = AddrBytes - i THEN byte ELSE 0]

\* value | shifted
Or160(value, shifted) ==
  [k \in 1..AddrBytes |-> ByteOr(value[k], shifted[k])]

\* uint8(value >> (i * 8))
ByteAt(value, i) == IF i < AddrBytes THEN value[AddrBytes - i] ELSE 0

\* for (i = from; i < n; i++) value |= hashBytes[last - i] << (i * 8),
\* where hashBytes is indexed from 0.
RECURSIVE PackLoop(_, _, _, _, _)
PackLoop(value, hashBytes, last, i, n) ==
  IF i >= n THEN value
  ELSE PackLoop(Or160(value, ShiftLeft(hashBytes[last - i + 1], i)),
                hashBytes, last, i + 1, n)

\* Variant: the third loop runs over 20 bytes instead of 6.
PackAddresses_tailTwenty(hashBytes) ==
  <<PackLoop(Zero160, hashBytes, 19, 0, AddrBytes),
    PackLoop(Zero160, hashBytes, 39, 0, AddrBytes),
    PackLoop(Zero160, hashBytes, 45, 0, AddrBytes)>>

\* The three packed values of a hash of at least 46 bytes.
PackAddresses(hashBytes) ==
  <<PackLoop(Zero160, hashBytes, 19, 0, AddrBytes),
    PackLoop(Zero160, hashBytes, 39, 0, AddrBytes),
    PackLoop(Zero160, hashBytes, 45, 0, TailBytes)>>

\* The three loops that write result[19 - i], result[39 - i], result[45 - i]
\* of a zeroed 46-byte buffer (indexed from 0).
UnpackAddresses(addr1Value, addr2Value, addr3Value) ==
  [k \in 1..HashLen |->
     IF k <= 20 THEN ByteAt(addr1Value, 20 - k)
     ELSE IF k <= 40 THEN ByteAt(addr2Value, 40 - k)
     ELSE ByteAt(addr3Value, 46 - k)]

\* Contract: ipfsHashToAddresses(string), on the bytes of the string.
ContractHashToAddresses(hashBytes) ==
  IF Len(hashBytes) < HashLen
  THEN [revert |-> ErrShortContract, addrs |-> <<>>, hash |-> <<>>]
  ELSE [revert |-> NoRevert, addrs |-> PackAddresses(hashBytes),
        hash |-> <<>>]

\* Contract: addressesToIPFSHash(addr1, addr2, addr3), the 46 bytes.
ContractAddressesToHash(addrs) ==
  UnpackAddresses(addrs[1], addrs[2], addrs[3])

\* str.startsWith('Qm')
StartsWithQm(str) == Len(str) >= 2 /\ SubSeq(str, 1, 2) = QmPrefix

\* removeQmPrefix; also the first statement of ipfsHashToAddresses.
removeQmPrefix(str) ==
  IF StartsWithQm(str) THEN SubSeq(str, 3, Len(str)) ELSE str

\* The hexadecimal digits of a value, two per byte.
ToNibbles(value) ==
  [k \in 1..(2 * Len(value)) |->
     IF k % 2 = 1 THEN value[(k + 1) \div 2] \div 16
     ELSE value[k \div 2] % 16]

RECURSIVE StripLeadingZeros(_)
StripLeadingZeros(digits) ==
  IF Len(digits) > 1 /\ digits[1] = 0 THEN StripLeadingZeros(Tail(digits))
  ELSE digits

\* value.toString(16).padStart(40, '0'): the digits after "0x".
FormatAddress(value) ==
  LET digits == StripLeadingZeros(ToNibbles(value))
  IN [k \in 1..(HexLen - Len(digits)) |-> 0] \o digits

\* BigInt("0x" + digits) for at most 40 digits.
ParseAddress(digits) ==
  LET padded == [k \in 1..(HexLen - Len(digits)) |-> 0] \o digits
  IN [k \in 1..AddrBytes |-> padded[2 * k - 1] * 16 + padded[2 * k]]

\* Frontend: ipfsHashToAddresses(ipfsHash) of ipfsUtils.ts.
FrontendHashToAddresses(ipfsHash) ==
  LET cleanHash == removeQmPrefix(ipfsHash) IN
  IF Len(cleanHash) < HashLen
  THEN [revert |-> ErrShortFrontend, addrs |-> <<>>, hash |-> <<>>]
  ELSE LET packed == PackAddresses(Utf8(cleanHash))
       IN [revert |-> NoRevert,
           addrs |-> <<FormatAddress(packed[1]), FormatAddress(packed[2]),
                       FormatAddress(packed[3])>>,
           hash |-> <<>>]

\* Frontend: addressesToIPFSHash(addr1, addr2, addr3) of ipfsUtils.ts.
FrontendAddressesToHash(addrs) ==
  Utf8Decode(UnpackAddresses(ParseAddress(addrs[1]), ParseAddress(addrs[2]),
                             ParseAddress(addrs[3])))

\* `Qm${hashWithoutPrefix}`
addQmPrefix(str) == QmPrefix \o str

\* The characters of the class [1-9A-HJ-NP-Za-km-z].
Base58Chars ==
  (49..57) \cup (65..72) \cup (74..78) \cup (80..90) \cup (97..107)
  \cup (109..122)

\* /^[1-9A-HJ-NP-Za-km-z]+$/.test(str)
Base58Test(str) ==
  Len(str) >= 1 /\ \A k \in 1..Len(str) : str[k] \in Base58Chars

\* Variant: the characters after the marker are not tested.
isValidIPFSHash_markerOnly(hash) ==
  IF StartsWithQm(hash) /\ Len(hash) = 48 THEN TRUE
  ELSE IF Len(hash) = HashLen THEN Base58Test(hash)
  ELSE FALSE

\* Frontend: isValidIPFSHash(hash) of ipfsUtils.ts.
isValidIPFSHash(hash) ==
  IF StartsWithQm(hash) /\ Len(hash) = 48
  THEN Base58Test(SubSeq(hash, 3, Len(hash)))
  ELSE IF Len(hash) = HashLen THEN Base58Test(hash)
  ELSE FALSE

(* ----------------------------- codec inputs --------------------------- *)
\* Characters the input bodies are made of: a Q m Z 1.
Palette == <<97, 81, 109, 90, 49>>
\* Characters outside ASCII: U+00E9, two bytes in UTF-8.
NonAsciiChars == <<233>>
\* Characters outside the base58 alphabet: '0' and 'l'.
NonBase58Chars == <<48, 108>>
\* The string "short".
ShortHash == <<115, 104, 111, 114, 116>>
\* The string "QmYwAPJzv5CZsnA625s3Xf2nemtYgPpHdWEz79ojWnPbdG" (46 characters).
ExampleHash ==
  <<81, 109, 89, 119, 65, 80, 74, 122, 118, 53, 67, 90, 115, 110, 65, 54,
    50, 53, 115, 51, 88, 102, 50, 110, 101, 109, 116, 89, 103, 80, 112, 72,
    100, 87, 69, 122, 55, 57, 111, 106, 87, 110, 80, 98, 100, 71>>
\* The string "YwAPJzv5CZsnA625s3Xf2nemtYgPpHdWEz79ojWnPbdGabc"
\* (47 characters).
DecryptTestHash ==
  <<89, 119, 65, 80, 74, 122, 118, 53, 67, 90, 115, 110, 65, 54, 50, 53,
    115, 51, 88, 102, 50, 110, 101, 109, 116, 89, 103, 80, 112, 72, 100, 87,
    69, 122, 55, 57, 111, 106, 87, 110, 80, 98, 100, 71, 97, 98, 99>>

\* A body of n characters; pattern 1 begins with the characters "Qm".
Body(n, seed) ==
  [i \in 1..n |-> Palette[((i * seed + (i \div 7)) % Len(Palette)) + 1]]

\* body with the character at position pos replaced (pos = 0: unchanged).
WithNonAscii(body, pos) ==
  [i \in 1..Len(body) |-> IF i = pos THEN NonAsciiChars[1] ELSE body[i]]

\* body with the character at position pos replaced by c.
WithChar(body, pos, c) ==
  [i \in 1..Len(body) |-> IF i = pos THEN c ELSE body[i]]

\* The strings handed to the codec: bodies of 44 to 46 + MaxExtra
\* characters, with and without the "Qm" prefix, all in the base58 alphabet
\* or with one character that is not (a two-byte character, '0' or 'l'),
\* and the strings the tests use.
CodecInputs ==
  {ShortHash, ExampleHash, DecryptTestHash, ExampleHash \o <<97, 98>>} \cup
  { prefix \o WithNonAscii(Body(n, seed), pos) :
      prefix \in {<<>>, QmPrefix}, n \in 44..(HashLen + MaxExtra),
      seed \in 1..MaxSeed, pos \in {0, 1, HashLen} } \cup
  { prefix \o WithChar(Body(n, seed), pos, NonBase58Chars[c]) :
      prefix \in {<<>>, QmPrefix}, n \in 44..(HashLen + MaxExtra),
      seed \in 1..MaxSeed, pos \in {3, HashLen},
      c \in 1..Len(NonBase58Chars) }

\* A codec run starts from any input string.
InitCodec ==
  /\ RegistryInit
  /\ cHash \in CodecInputs
  /\ cStep = "input"
  /\ cContract = NoResult
  /\ cFrontend = NoResult
  /\ cValid = FALSE
  /\ FheInit

\* Both conversion functions are applied to the input string.
CodecEncode ==
  /\ cStep = "input"
  /\ cContract' = ContractHashToAddresses(Utf8(cHash))
  /\ cFrontend' = FrontendHashToAddresses(cHash)
  /\ cStep' = "encoded"
  /\ UNCHANGED <<cHash, cValid, registryVars, lastCall, fheVars>>

\* Each result that was produced is converted back.
CodecDecode ==
  /\ cStep = "encoded"
  /\ cContract' =
       IF cContract.revert # NoRevert THEN cContract
       ELSE [cContract EXCEPT !.hash = ContractAddressesToHash(cContract.addrs)]
  /\ cFrontend' =
       IF cFrontend.revert # NoRevert THEN cFrontend
       ELSE [cFrontend EXCEPT !.hash = FrontendAddressesToHash(cFrontend.addrs)]
  /\ cStep' = "decoded"
  /\ UNCHANGED <<cHash, cValid, registryVars, lastCall, fheVars>>

\* The format validator is applied to the input string.
CodecValidate ==
  /\ cStep = "input"
  /\ cValid' = isValidIPFSHash(cHash)
  /\ cStep' = "validated"
  /\ UNCHANGED <<cHash, cContract, cFrontend, registryVars, lastCall,
               fheVars>>

NextCodec == CodecEncode \/ CodecDecode \/ CodecValidate

SpecCodec == InitCodec /\ [][NextCodec]_vars

(* ------------------- the two-address contract (contracts/) ------------ *)
\* The contract of src/contracts stores two handles per entry and has the
\* additional entry point storeIPFSHash.

\* Least number of bytes its ipfsHashToAddresses accepts.
LegacyMinLen == 32
ErrShortLegacy == "IPFS hash too short"

\* The encrypted inputs a caller may submit: two handles under one proof.
LegacyHandlePairs == {<<1, 2>>, <<2, 1>>}
\* The hash strings handed to storeIPFSHash: "short", the example hash and
\* its 44-character body.
LegacyHashes ==
  {ShortHash, ExampleHash, SubSeq(ExampleHash, 3, Len(ExampleHash))}

\* Default value of a mapping slot of the two-handle EncryptedIPFSData.
LegacyEmptyData ==
  [encryptedAddress1 |-> NoHandle, encryptedAddress2 |-> NoHandle,
   owner |-> NullAddr, exists |-> FALSE]

\* The two-address contract right after deployment.
LegacyInit ==
  /\ _currentId = 0
  /\ _encryptedStorage = [i \in StorageIds |-> LegacyEmptyData]
  /\ _authorizedUsers = [i \in StorageIds |-> [u \in Addresses |-> FALSE]]
  /\ _userStorageIds = [u \in Addresses |-> <<>>]
  /\ acl = {}
  /\ events = <<>>
  /\ lastCall = Call("constructor", NullAddr, 0, NullAddr, NoRevert, 0)
  /\ CodecIdle
  /\ FheInit

\* require(hashBytes.length >= 32, ...) of its ipfsHashToAddresses.
LegacyHashToAddressesRevert(hashBytes) ==
  IF Len(hashBytes) < LegacyMinLen THEN ErrShortLegacy ELSE NoRevert

\* storeEncryptedIPFSData(encryptedAddr1, encryptedAddr2, inputProof)
LegacyStoreEncryptedIPFSData(sender, addr1, addr2, proofValid) ==
  IF fromExternalRevert(proofValid) # NoRevert
  THEN /\ lastCall' = Call("storeEncryptedIPFSData", sender, 0,
                           <<addr1, addr2>>,
                           fromExternalRevert(proofValid), 0)
       /\ UNCHANGED registryVars
  ELSE LET storageId == NextStorageId(_currentId) IN
       /\ _currentId < MaxEntries
       /\ Len(events) < MaxEvents
       /\ _currentId' = storageId
       /\ _encryptedStorage' =
            [_encryptedStorage EXCEPT ![storageId] =
               [encryptedAddress1 |-> addr1, encryptedAddress2 |-> addr2,
                owner |-> sender, exists |-> TRUE]]
       /\ acl' = acl \cup ({addr1, addr2} \X {ThisAddr, sender})
       /\ _userStorageIds' =
            [_userStorageIds EXCEPT ![sender] = Append(@, storageId)]
       /\ events' = Append(events, [name |-> "IPFSDataStored",
                                    storageId |-> storageId,
                                    user |-> sender, by |-> sender])
       /\ lastCall' = Call("storeEncryptedIPFSData", sender, storageId,
                           <<addr1, addr2>>, NoRevert, storageId)
       /\ UNCHANGED _authorizedUsers

\* storeIPFSHash(ipfsHash, encryptedAddr1, encryptedAddr2, inputProof): the
\* hash is converted, which reverts when it is too short; the two addresses
\* are not used, the call of storeEncryptedIPFSData is commented out and
\* the input proof is not looked at, so the named return value storageId
\* keeps its default 0.
storeIPFSHash(sender, ipfsHash, addr1, addr2, proofValid) ==
  /\ lastCall' =
       IF LegacyHashToAddressesRevert(Utf8(ipfsHash)) # NoRevert
       THEN Call("storeIPFSHash", sender, 0, <<addr1, addr2>>,
                 LegacyHashToAddressesRevert(Utf8(ipfsHash)), 0)
       ELSE Call("storeIPFSHash", sender, 0, <<addr1, addr2>>, NoRevert, 0)
  /\ UNCHANGED registryVars

NextLegacy ==
  \/ /\ \E s \in Users, t \in LegacyHandlePairs, p \in BOOLEAN :
          LegacyStoreEncryptedIPFSData(s, t[1], t[2], p)
     /\ UNCHANGED <<codecVars, fheVars>>
  \/ /\ \E s \in Users, h \in LegacyHashes, t \in LegacyHandlePairs,
          p \in BOOLEAN : storeIPFSHash(s, h, t[1], t[2], p)
     /\ UNCHANGED <<codecVars, fheVars>>
  \/ /\ getCurrentId
     /\ UNCHANGED <<codecVars, fheVars>>

SpecLegacy == LegacyInit /\ [][NextLegacy]_vars

(* ------------------------- the frontend hook -------------------------- *)
\* useIPFSStorage: storeIPFSHash and retrieveIPFSHash, run by a connected
\* wallet with the encryption provider initialized.

ErrDecrypt == "User is not authorized to decrypt this handle"

\* The hash strings typed into the form: "short", the example hash, and
\* bodies of 46 base58 characters with and without the "Qm" prefix, one of
\* the bodies itself beginning with "Qm".
HookInputs ==
  {ShortHash, ExampleHash} \cup
  { prefix \o Body(HashLen, seed) :
      prefix \in {<<>>, QmPrefix}, seed \in 1..2 }

\* buffer.addAddress(value); buffer.encrypt(): the handle of the ciphertext
\* of value.
EncryptAddress(value) == <<"eaddress", value>>

\* userDecrypt: the value a handle was made from.
DecryptHandle(handle) == handle[2]

\* A hook run starts on the freshly deployed contract with any hash string.
InitHook ==
  /\ RegistryInit
  /\ cHash \in HookInputs
  /\ cStep = "input"
  /\ cContract = NoResult
  /\ cFrontend = NoResult
  /\ cValid = FALSE
  /\ FheInit

\* storeIPFSHash(ipfsHash) of the hook, called by the wallet `address`:
\* removeQmPrefix, ipfsHashToAddresses, encryptAddresses, then the
\* transaction storeEncryptedIPFSData.
HookStoreIPFSHash(address) ==
  LET addresses == FrontendHashToAddresses(removeQmPrefix(cHash)) IN
  IF addresses.revert # NoRevert
  THEN /\ cFrontend' = addresses
       /\ cStep' = "storeFailed"
       /\ UNCHANGED <<cHash, cContract, cValid, registryVars, lastCall,
                      fheVars>>
  ELSE /\ storeEncryptedIPFSData(address,
                                 EncryptAddress(addresses.addrs[1]),
                                 EncryptAddress(addresses.addrs[2]),
                                 EncryptAddress(addresses.addrs[3]), TRUE)
       /\ cFrontend' = addresses
       /\ cStep' = "stored"
       /\ UNCHANGED <<cHash, cContract, cValid, fheVars>>

\* retrieveIPFSHash(storageId) of the hook, called by the wallet `address`:
\* readContract getEncryptedAddresses, decryptAddresses, addressesToIPFSHash,
\* addQmPrefix.  readContract names no account, so msg.sender of the call is
\* the address `from` that the node fills in: address(0) or an account of
\* its own, which need not be the wallet's.
HookRetrieveIPFSHash(address, storageId, from) ==
  /\ getEncryptedAddresses(from, storageId)
  /\ UNCHANGED <<cHash, cContract, cValid, fheVars>>
  /\ IF getEncryptedAddressesRevert(from, storageId) # NoRevert
     THEN /\ cFrontend' =
               [cFrontend EXCEPT
                  !.revert = getEncryptedAddressesRevert(from, storageId),
                  !.hash = <<>>]
          /\ cStep' = "retrieveFailed"
     ELSE LET handles == getEncryptedAddressesRet(storageId) IN
          IF \E k \in 1..3 : <<handles[k], address>> \notin acl
          THEN /\ cFrontend' =
                    [cFrontend EXCEPT !.revert = ErrDecrypt, !.hash = <<>>]
               /\ cStep' = "retrieveFailed"
          ELSE /\ cFrontend' =
                    [cFrontend EXCEPT
                       !.revert = NoRevert,
                       !.hash = addQmPrefix(FrontendAddressesToHash(
                                  <<DecryptHandle(handles[1]),
                                    DecryptHandle(handles[2]),
                                    DecryptHandle(handles[3])>>))]
               /\ cStep' = "retrieved"

NextHook ==
  \/ \E a \in Users : HookStoreIPFSHash(a)
  \/ /\ \E s \in Users, i \in StorageIds, u \in Addresses :
          grantAccess(s, i, u)
     /\ UNCHANGED <<codecVars, fheVars>>
  \/ \E a \in Users, i \in StorageIds, f \in Addresses :
       HookRetrieveIPFSHash(a, i, f)

SpecHook == InitHook /\ [][NextHook]_vars

(* ------------------------ fheUtils.ts: initialization ------------------ *)
\* JavaScript runs each piece of code between two awaits to completion, so
\* an action is the code from one suspension point of a call to the next.
\* A callback is opaque: invoking it is counted and calls nothing of the
\* module.

ErrFheNotInitialized == "FHE not initialized. Call initFHE() first."

\* initFHE(), up to its first await: the stored instance is returned when
\* there is one, otherwise initSDK() is started.
initFHE(p) ==
  /\ initCalls[p].pc = "idle"
  /\ initCalls' =
       IF fheInstance # NoInstance /\ isInitialized
       THEN [initCalls EXCEPT ![p] = [pc |-> "resolved", ret |-> fheInstance]]
       ELSE [initCalls EXCEPT ![p].pc = "awaitInitSDK"]
  /\ UNCHANGED <<fheInstance, isInitialized, initCallbacks, instances,
                 timers, callbacks, fheLast, registryVars, lastCall, codecVars>>

\* await initSDK() settles: createInstance(config) is started, or the
\* rejection is rethrown.
initSDKSettled(p, fulfilled) ==
  /\ initCalls[p].pc = "awaitInitSDK"
  /\ initCalls' =
       [initCalls EXCEPT ![p].pc =
          IF fulfilled THEN "awaitCreateInstance" ELSE "rejected"]
  /\ UNCHANGED <<fheInstance, isInitialized, initCallbacks, instances,
                 timers, callbacks, fheLast, registryVars, lastCall, codecVars>>

\* Number of times callback c occurs in list.
Occurrences(list, c) == Cardinality({k \in 1..Len(list) : list[k] = c})

\* initCallbacks.forEach(callback => callback())
NotifyAll(cbs, list) ==
  [c \in DOMAIN cbs |->
     [cbs[c] EXCEPT !.invoked = @ + Occurrences(list, c)]]

\* await createInstance(config) settles: the new instance is stored, the
\* flag is set, the callbacks are notified and the instance is returned; or
\* the rejection is rethrown.
createInstanceSettled(p, fulfilled) ==
  /\ initCalls[p].pc = "awaitCreateInstance"
  /\ IF fulfilled
     THEN /\ instances' = instances + 1
          /\ fheInstance' = instances + 1
          /\ isInitialized' = TRUE
          /\ callbacks' = NotifyAll(callbacks, initCallbacks)
          /\ initCalls' = [initCalls EXCEPT
                             ![p] = [pc |-> "resolved", ret |-> instances + 1]]
     ELSE /\ initCalls' = [initCalls EXCEPT ![p].pc = "rejected"]
          /\ UNCHANGED <<instances, fheInstance, isInitialized, callbacks>>
  /\ UNCHANGED <<initCallbacks, timers, fheLast, registryVars, lastCall, codecVars>>

\* onFHEInitialized(callback) for a callback not handed in before.
onFHEInitialized(c) ==
  /\ callbacks[c].sub = "none"
  /\ IF isInitialized
     THEN /\ timers' = timers \cup {c}
          /\ UNCHANGED initCallbacks
     ELSE /\ initCallbacks' = Append(initCallbacks, c)
          /\ UNCHANGED timers
  /\ callbacks' = [callbacks EXCEPT ![c].sub = "subscribed",
                                    ![c].early = ~isInitialized]
  /\ UNCHANGED <<fheInstance, isInitialized, initCalls, instances, fheLast,
                 registryVars, lastCall, codecVars>>

\* list without its first occurrence of c: indexOf and splice.
RECURSIVE RemoveFirst(_, _)
RemoveFirst(list, c) ==
  IF list = <<>> THEN <<>>
  ELSE IF Head(list) = c THEN Tail(list)
  ELSE <<Head(list)>> \o RemoveFirst(Tail(list), c)

\* The unsubscribe function returned by onFHEInitialized(callback).
unsubscribe(c) ==
  /\ callbacks[c].sub = "subscribed"
  /\ initCallbacks' = RemoveFirst(initCallbacks, c)
  /\ callbacks' = [callbacks EXCEPT ![c].sub = "unsubscribed"]
  /\ UNCHANGED <<fheInstance, isInitialized, initCalls, instances, timers,
                 fheLast, registryVars, lastCall, codecVars>>

\* The timer of setTimeout(callback, 0) runs the callback.
timerFires(c) ==
  /\ c \in timers
  /\ timers' = timers \ {c}
  /\ callbacks' = [callbacks EXCEPT ![c].invoked = @ + 1]
  /\ UNCHANGED <<fheInstance, isInitialized, initCallbacks, initCalls,
                 instances, fheLast, registryVars, lastCall, codecVars>>

\* isFHEInitialized()
isFHEInitialized == isInitialized /\ fheInstance # NoInstance

\* Variant: the instance is used without being tested.
fheInstanceRevert_noCheck(instance) == NoRevert

\* if (!fheInstance) throw new Error('FHE not initialized. ...')
fheInstanceRevert(instance) ==
  IF instance = NoInstance THEN ErrFheNotInitialized ELSE NoRevert

\* encryptAddresses / decryptAddresses, up to the first use of the
\* instance: the call is rejected, or it goes on with the stored instance.
useInstance(fn) ==
  /\ fheLast' = [fn |-> fn,
                 revert |-> fheInstanceRevert(fheInstance),
                 initialized |-> isFHEInitialized,
                 instance |-> IF fheInstanceRevert(fheInstance) = NoRevert
                              THEN fheInstance ELSE NoInstance]
  /\ UNCHANGED <<fheInstance, isInitialized, initCallbacks, initCalls,
                 instances, timers, callbacks, registryVars, lastCall, codecVars>>

NextFhe ==
  \/ \E p \in InitCallIds : initFHE(p)
  \/ \E p \in InitCallIds, fulfilled \in BOOLEAN : initSDKSettled(p, fulfilled)
  \/ \E p \in InitCallIds, fulfilled \in BOOLEAN :
       createInstanceSettled(p, fulfilled)
  \/ \E c \in CallbackIds : onFHEInitialized(c)
  \/ \E c \in CallbackIds : unsubscribe(c)
  \/ \E c \in CallbackIds : timerFires(c)
  \/ \E fn \in {"encryptAddresses", "decryptAddresses"} : useInstance(fn)

SpecFhe == Init /\ [][NextFhe]_vars

(* --------------------------- the state machine ------------------------ *)
Next ==
  \/ /\ \E s \in Users, t \in HandleTriples, p \in BOOLEAN :
          storeEncryptedIPFSData(s, t[1], t[2], t[3], p)
     /\ UNCHANGED <<codecVars, fheVars>>
  \/ /\ \E s \in Users, i \in StorageIds, u \in Addresses :
          grantAccess(s, i, u)
     /\ UNCHANGED <<codecVars, fheVars>>
  \/ /\ \E s \in Users, i \in StorageIds, u \in Addresses :
          revokeAccess(s, i, u)
     /\ UNCHANGED <<codecVars, fheVars>>
  \/ /\ \E s \in Addresses, i \in StorageIds : getEncryptedAddresses(s, i)
     /\ UNCHANGED <<codecVars, fheVars>>
  \/ /\ \E i \in StorageIds, u \in Addresses : hasAccess(i, u)
     /\ UNCHANGED <<codecVars, fheVars>>
  \/ /\ \E i \in StorageIds : getOwner(i)
     /\ UNCHANGED <<codecVars, fheVars>>
  \/ /\ \E u \in Addresses : getUserStorageIds(u)
     /\ UNCHANGED <<codecVars, fheVars>>
  \/ /\ getCurrentId
     /\ UNCHANGED <<codecVars, fheVars>>

Spec == Init /\ [][Next]_vars

(* ------------------------ observations of a step ---------------------- *)
\* The last call was fn and did not revert.
Succeeded(fn) == lastCall.fn = fn /\ lastCall.revert = NoRevert

\* This step is a successful grantAccess(owner, storageId, user).
GrantStep(storageId, user) ==
  /\ events' # events
  /\ lastCall'.fn = "grantAccess" /\ lastCall'.revert = NoRevert
  /\ lastCall'.storageId = storageId /\ lastCall'.user = user

\* This step is a successful revokeAccess(owner, storageId, user).
RevokeStep(storageId, user) ==
  /\ events' # events
  /\ lastCall'.fn = "revokeAccess" /\ lastCall'.revert = NoRevert
  /\ lastCall'.storageId = storageId /\ lastCall'.user = user

\* user can read entry storageId: hasAccess is true and getHandles succeeds.
Readable(storageId, user) ==
  /\ hasAccessRet(storageId, user)
  /\ getEncryptedAddressesRevert(user, storageId) = NoRevert

\* user is refused entry storageId: hasAccess is false, getHandles Forbidden.
Refused(storageId, user) ==
  /\ ~hasAccessRet(storageId, user)
  /\ getEncryptedAddressesRevert(user, storageId) \in Forbidden

\* The IPFSDataStored events of the log, in order.
StoredEvents == SelectSeq(events, LAMBDA e : e.name = "IPFSDataStored")

(* -------------------------------- claims ------------------------------ *)
\* C1: in every reachable state the existing entry ids are exactly
\* 1..currentCount(); the k-th successful register returns id k, and
\* currentCount() is the number of successful registers so far.
C1_DenseIds ==
  /\ {i \in StorageIds : _encryptedStorage[i].exists} = 1.._currentId
  /\ Len(StoredEvents) = _currentId
  /\ \A k \in 1..Len(StoredEvents) : StoredEvents[k].storageId = k
  /\ Succeeded("storeEncryptedIPFSData") =>
       lastCall.ret = Len(StoredEvents)

\* C1 witness: a second register, after a grant or revoke, returned id 2.
C1_Witness ==
  /\ Succeeded("storeEncryptedIPFSData") /\ lastCall.ret = 2
  /\ Len(events) = 3 /\ events[2].name # "IPFSDataStored"

\* C2: a successful grantAccess(o, id, r) makes hasAccess(id, r) true and
\* getHandles(r, id) succeed, and both stay so until o revokes r.
C2_GrantGivesAccess ==
  [][\A i \in StorageIds, r \in Addresses :
       /\ GrantStep(i, r) => Readable(i, r)'
       /\ (_authorizedUsers[i][r] /\ ~RevokeStep(i, r)) => Readable(i, r)']_vars

\* C2 witness: a granted reader who is not the owner fetched the handles,
\* after a later operation on the registry.
C2_Witness ==
  /\ Succeeded("getEncryptedAddresses")
  /\ _encryptedStorage[lastCall.storageId].owner # lastCall.sender
  /\ Len(events) = 3
  /\ events[2] = [name |-> "AccessGranted", storageId |-> lastCall.storageId,
                  user |-> lastCall.sender,
                  by |-> _encryptedStorage[lastCall.storageId].owner]

\* C3 as stated: after a successful revokeAccess(o, id, r), for every
\* identity r, hasAccess(id, r) is false and getHandles(r, id) fails with
\* Forbidden, until r is granted access again.
C3_Original ==
  [][\A i \in StorageIds, r \in Addresses :
       /\ RevokeStep(i, r) => Refused(i, r)'
       /\ (Refused(i, r) /\ ~GrantStep(i, r)) => Refused(i, r)']_vars

\* C3 amended: after a successful revokeAccess(o, id, r) for an identity r
\* other than the owner o, hasAccess(id, r) is false and getHandles(r, id)
\* fails with Forbidden, until r is granted access again.
C3_RevokeRemovesAccess ==
  [][\A i \in StorageIds, r \in Addresses :
       r # _encryptedStorage[i].owner =>
         /\ RevokeStep(i, r) => Refused(i, r)'
         /\ (Refused(i, r) /\ ~GrantStep(i, r)) => Refused(i, r)']_vars

\* C3 witness: a reader was granted access, the owner revoked it, and the
\* reader's getHandles was refused.
C3_Witness ==
  /\ lastCall.fn = "getEncryptedAddresses" /\ lastCall.revert = ErrDenied
  /\ Len(events) = 3
  /\ events[2] = [name |-> "AccessGranted", storageId |-> lastCall.storageId,
                  user |-> lastCall.sender,
                  by |-> _encryptedStorage[lastCall.storageId].owner]
  /\ events[3] = [events[2] EXCEPT !.name = "AccessRevoked"]

\* C4: in every reachable state hasAccess(id, owner(id)) is true and
\* getHandles(owner(id), id) succeeds for every existing entry; no sequence
\* of operations removes the owner's access.
C4_OwnerAlwaysHasAccess ==
  \A i \in StorageIds :
    _encryptedStorage[i].exists => Readable(i, _encryptedStorage[i].owner)

\* C4 witness: the owner granted access to itself and then revoked itself.
C4_Witness ==
  /\ Succeeded("revokeAccess") /\ lastCall.user = lastCall.sender
  /\ Len(events) = 3
  /\ events[2] = [name |-> "AccessGranted", storageId |-> lastCall.storageId,
                  user |-> lastCall.sender, by |-> lastCall.sender]
  /\ events[3] = [events[2] EXCEPT !.name = "AccessRevoked"]

\* C5: immediately after register(o, ...) returns id, hasAccess(id, o) is
\* true and hasAccess(id, u) is false for every other identity u, whatever
\* grants, revokes and rejected operations came before.
C5_FreshEntryOwnerOnly ==
  Succeeded("storeEncryptedIPFSData") =>
    /\ hasAccessRet(lastCall.ret, lastCall.sender)
    /\ \A u \in Addresses \ {lastCall.sender} : ~hasAccessRet(lastCall.ret, u)

\* C5 witness: a register that followed a grant to the other user on the
\* first entry.
C5_Witness ==
  /\ Succeeded("storeEncryptedIPFSData") /\ lastCall.ret = 2
  /\ Len(events) = 3 /\ events[2].name = "AccessGranted"
  /\ events[2].user # lastCall.sender

\* C6: grantAccess(a, id, r) and revokeAccess(a, id, r) on an existing entry
\* fail with Forbidden whenever a is not owner(id), also when a is an
\* authorized reader; only the owner changes an entry's authorization set.
C6_OnlyOwnerChangesAccess ==
  [][/\ ( /\ lastCall'.fn \in {"grantAccess", "revokeAccess"}
          /\ _encryptedStorage[lastCall'.storageId].exists
          /\ lastCall'.sender # _encryptedStorage[lastCall'.storageId].owner )
        => ( lastCall'.revert \in Forbidden /\ UNCHANGED _authorizedUsers )
     /\ \A i \in StorageIds :
          _authorizedUsers'[i] # _authorizedUsers[i] =>
            /\ lastCall'.fn \in {"grantAccess", "revokeAccess"}
            /\ lastCall'.storageId = i
            /\ lastCall'.sender = _encryptedStorage[i].owner]_vars

\* C6 witness: an authorized reader who is not the owner tried to grant
\* access and was refused.
C6_Witness ==
  /\ lastCall.fn = "grantAccess" /\ lastCall.revert = ErrGrantOwner
  /\ lastCall.user \in Users
  /\ _authorizedUsers[lastCall.storageId][lastCall.sender]

\* C7: every rejected operation (NotFound, Forbidden or InvalidReader from
\* grantAccess, revokeAccess, getHandles or ownerOf) leaves the counter, the
\* entries, the authorization relation, the owner index and the provider
\* permissions unchanged and emits no event.
C7_RejectedChangesNothing ==
  [][lastCall'.revert \in (NotFound \cup Forbidden \cup InvalidReader) =>
       UNCHANGED registryVars]_vars

\* C7 witness: a revokeAccess by a non-owner, aimed at a reader who holds
\* access, was rejected.
C7_Witness ==
  /\ lastCall.fn = "revokeAccess" /\ lastCall.revert = ErrRevokeOwner
  /\ _authorizedUsers[lastCall.storageId][lastCall.user]

\* The storage id was never issued.
NeverIssued(storageId) == storageId = 0 \/ storageId > _currentId

\* C8: for every id that was never issued, getHandles, grantAccess,
\* revokeAccess and ownerOf fail with NotFound for every actor and reader,
\* and hasAccess returns false without failing.
C8_NeverIssuedNotFound ==
  /\ \A i \in StorageIds : NeverIssued(i) =>
       /\ getOwnerRevert(i) \in NotFound
       /\ \A a \in Addresses, u \in Addresses :
            /\ getEncryptedAddressesRevert(a, i) \in NotFound
            /\ grantAccessRevert(a, i, u) \in NotFound
            /\ revokeAccessRevert(a, i, u) \in NotFound
            /\ hasAccessRet(i, u) = FALSE
  /\ ( /\ NeverIssued(lastCall.storageId)
       /\ lastCall.fn \in {"getEncryptedAddresses", "grantAccess",
                           "revokeAccess", "getOwner"} )
     => lastCall.revert \in NotFound
  /\ (lastCall.fn = "hasAccess" /\ NeverIssued(lastCall.storageId))
     => (lastCall.revert = NoRevert /\ lastCall.ret = FALSE)

\* C8 witness: ownerOf was called on an id above the counter of a registry
\* that holds an entry.
C8_Witness ==
  /\ lastCall.fn = "getOwner" /\ lastCall.storageId > _currentId
  /\ _currentId >= 1 /\ lastCall.revert = ErrNotExist

\* C9: grantAccess reports its failures in the order NotFound, Forbidden,
\* InvalidReader: with the null identity as reader, a call on a nonexistent
\* id fails with NotFound, a call by a non-owner with Forbidden, and the
\* owner's call with InvalidReader, authorizing nobody.
C9_GrantFailureOrder ==
  [][(lastCall'.fn = "grantAccess" /\ lastCall'.user = NullAddr) =>
       LET data == _encryptedStorage[lastCall'.storageId] IN
       /\ ~data.exists => lastCall'.revert \in NotFound
       /\ (data.exists /\ data.owner # lastCall'.sender) =>
            lastCall'.revert \in Forbidden
       /\ (data.exists /\ data.owner = lastCall'.sender) =>
            lastCall'.revert \in InvalidReader
       /\ UNCHANGED _authorizedUsers]_vars

\* C9 witness: the owner's grant to the null identity was rejected.
C9_Witness ==
  /\ lastCall.fn = "grantAccess" /\ lastCall.user = NullAddr
  /\ lastCall.revert = ErrInvalidUser
  /\ _encryptedStorage[lastCall.storageId].owner = lastCall.sender

\* C10: getHandles(a, id) on an existing entry succeeds exactly when a is
\* owner(id) or in the authorization set of id, and fails with Forbidden
\* otherwise; on success it returns the three handles supplied to the
\* register call that created id, in the same order.
C10_GetHandles ==
  [][/\ \A i \in StorageIds :
          ( /\ lastCall'.fn = "storeEncryptedIPFSData"
            /\ lastCall'.revert = NoRevert /\ events' # events
            /\ lastCall'.ret = i ) =>
            getEncryptedAddressesRet(i)' = StoreArgs(lastCall')
     /\ \A i \in StorageIds : _encryptedStorage[i].exists =>
          getEncryptedAddressesRet(i)' = getEncryptedAddressesRet(i)
     /\ ( /\ lastCall'.fn = "getEncryptedAddresses"
          /\ _encryptedStorage[lastCall'.storageId].exists ) =>
          LET i == lastCall'.storageId
              a == lastCall'.sender
              allowed == \/ a = _encryptedStorage[i].owner
                         \/ _authorizedUsers[i][a]
          IN /\ allowed => /\ lastCall'.revert = NoRevert
                           /\ lastCall'.ret = getEncryptedAddressesRet(i)
             /\ ~allowed => lastCall'.revert \in Forbidden]_vars

\* C10 witness: an authorized reader fetched the handles of the second
\* entry, which differ in order from those of the first.
C10_Witness ==
  /\ Succeeded("getEncryptedAddresses") /\ lastCall.storageId = 2
  /\ _authorizedUsers[2][lastCall.sender]
  /\ lastCall.ret = <<2, 3, 1>>
  /\ getEncryptedAddressesRet(1) = <<1, 2, 3>>

\* C11: hasAccess(id, who) is total: it never fails, and it returns true
\* if and only if id exists and who is owner(id) or is currently in the
\* authorization set of id.
C11_HasAccessTotal ==
  /\ \A i \in StorageIds, u \in Addresses :
       /\ hasAccessRet(i, u) \in BOOLEAN
       /\ hasAccessRet(i, u) <=>
            /\ i \in 1.._currentId
            /\ \/ u = _encryptedStorage[i].owner
               \/ _authorizedUsers[i][u]
  /\ lastCall.fn = "hasAccess" =>
       /\ lastCall.revert = NoRevert
       /\ lastCall.ret = hasAccessRet(lastCall.storageId, lastCall.user)

\* C11 witness: hasAccess returned true for a reader who is not the owner,
\* while the null identity is refused on an id that was never issued.
C11_Witness ==
  /\ Succeeded("hasAccess") /\ lastCall.ret = TRUE
  /\ lastCall.user # _encryptedStorage[lastCall.storageId].owner
  /\ ~hasAccessRet(0, NullAddr)

\* C12: once an entry has been created it exists in every later state, and
\* ownerOf(id) and the three handles returned by getHandles for it are the
\* same in every later state as at creation, whatever registers, grants and
\* revokes follow.
C12_EntriesImmutable ==
  [][/\ \A i \in StorageIds :
          ( /\ lastCall'.fn = "storeEncryptedIPFSData"
            /\ lastCall'.revert = NoRevert /\ lastCall'.ret = i ) =>
            /\ _encryptedStorage'[i].exists
            /\ _encryptedStorage'[i].owner = lastCall'.sender
            /\ getEncryptedAddressesRet(i)' = StoreArgs(lastCall')
     /\ \A i \in StorageIds : _encryptedStorage[i].exists =>
          /\ _encryptedStorage'[i].exists
          /\ getOwnerRevert(i)' = NoRevert
          /\ _encryptedStorage'[i].owner = _encryptedStorage[i].owner
          /\ getEncryptedAddressesRet(i)' = getEncryptedAddressesRet(i)]_vars

\* C12 witness: ownerOf(1) still returns the creator of entry 1 after a
\* second register and a revoke.
C12_Witness ==
  /\ Succeeded("getOwner") /\ lastCall.storageId = 1
  /\ Len(events) = 3
  /\ events[1].name = "IPFSDataStored" /\ lastCall.ret = events[1].user
  /\ events[2].name = "IPFSDataStored" /\ events[2].user # events[1].user
  /\ events[3].name = "AccessRevoked" /\ events[3].storageId = 1

\* The ids of the entries registered by user, in the order of the
\* IPFSDataStored events.
IdsStoredBy(user) ==
  LET s == SelectSeq(StoredEvents, LAMBDA e : e.user = user)
  IN [k \in 1..Len(s) |-> s[k].storageId]

\* The owner index is right for every identity.
OwnerIndexExact ==
  \A u \in Addresses :
    LET ids == _userStorageIds[u] IN
    /\ ids = IdsStoredBy(u)
    /\ {ids[k] : k \in 1..Len(ids)} =
         {i \in StorageIds : /\ _encryptedStorage[i].exists
                             /\ _encryptedStorage[i].owner = u}
    /\ \A j, k \in 1..Len(ids) : j < k => ids[j] < ids[k]

\* C13: in every reachable state entriesOwnedBy(u) never fails and is
\* exactly the sequence of ids whose register was called by u, in increasing
\* creation order and without duplicates; grants and revokes never change
\* any identity's list.
C13_OwnerIndex ==
  [][/\ OwnerIndexExact'
     /\ lastCall'.fn = "getUserStorageIds" =>
          /\ lastCall'.revert = NoRevert
          /\ lastCall'.ret = IdsStoredBy(lastCall'.user)
     /\ lastCall'.fn \in {"grantAccess", "revokeAccess"} =>
          UNCHANGED _userStorageIds]_vars

\* C13 witness: one user registered twice and a grant followed; its list is
\* still <<1, 2>> and another identity's list is empty.
C13_Witness ==
  /\ Succeeded("getUserStorageIds") /\ lastCall.ret = <<1, 2>>
  /\ Len(events) = 3 /\ events[3].name = "AccessGranted"
  /\ \E u \in Addresses \ {lastCall.user} : _userStorageIds[u] = <<>>

\* C14: in every reachable state every (entry id, reader) pair of the
\* authorization relation refers to an entry that exists; no authorization
\* is recorded for an id that has not been issued.
C14_AuthorizedImpliesExists ==
  \A i \in StorageIds, u \in Addresses :
    _authorizedUsers[i][u] =>
      (_encryptedStorage[i].exists /\ i \in 1.._currentId)

\* C14 witness: a grant on an id that was never issued was rejected while a
\* reader is authorized on an existing entry.
C14_Witness ==
  /\ lastCall.fn = "grantAccess" /\ lastCall.revert = ErrNotExist
  /\ lastCall.user \in Users
  /\ \E i \in StorageIds, u \in Addresses : _authorizedUsers[i][u]

\* C15: grantAccess is idempotent: a second grantAccess(o, id, r) by the
\* owner for an already-authorized reader succeeds and leaves the
\* authorization relation and all other persisted registry state (counter,
\* entries, owner index, provider permissions) as after the first grant.
C15_GrantIdempotent ==
  [][\A i \in StorageIds, r \in Addresses :
       ( /\ lastCall'.fn = "grantAccess"
         /\ lastCall'.storageId = i /\ lastCall'.user = r
         /\ lastCall'.sender = _encryptedStorage[i].owner
         /\ _authorizedUsers[i][r] ) =>
         /\ lastCall'.revert = NoRevert
         /\ UNCHANGED <<_currentId, _encryptedStorage, _authorizedUsers,
                        _userStorageIds, acl>>]_vars

\* C15 witness: the owner granted the same reader twice in a row.
C15_Witness ==
  /\ Succeeded("grantAccess")
  /\ Len(events) = 3 /\ events[3].name = "AccessGranted"
  /\ events[2] = events[3]
  /\ events[3].user # events[3].by

\* user holds the provider's permission on all three handles of storageId.
HoldsPermission(storageId, user) ==
  \A k \in 1..3 : <<getEncryptedAddressesRet(storageId)[k], user>> \in acl

\* C16: the provider's permissions only grow: no registry operation removes
\* a (handle, identity) permission, so after grantAccess(o, id, r) followed
\* by revokeAccess(o, id, r) the reader r still holds the permission on all
\* three handles of id while hasAccess(id, r) is false.
C16_PermissionsOnlyGrow ==
  [][/\ acl \subseteq acl'
     /\ \A i \in StorageIds, r \in Addresses :
          /\ GrantStep(i, r) => HoldsPermission(i, r)'
          /\ HoldsPermission(i, r) => HoldsPermission(i, r)'
          /\ ( /\ RevokeStep(i, r) /\ _authorizedUsers[i][r]
               /\ r # _encryptedStorage[i].owner ) =>
               (HoldsPermission(i, r)' /\ ~hasAccessRet(i, r)')]_vars

\* C16 witness: a reader was granted and then revoked; hasAccess is false
\* for it and it holds the permission on the entry's three handles.
C16_Witness ==
  /\ Succeeded("revokeAccess") /\ Len(events) = 3
  /\ events[2] = [name |-> "AccessGranted", storageId |-> lastCall.storageId,
                  user |-> lastCall.user, by |-> lastCall.sender]
  /\ lastCall.user # lastCall.sender
  /\ ~hasAccessRet(lastCall.storageId, lastCall.user)
  /\ HoldsPermission(lastCall.storageId, lastCall.user)

\* C17: a successful register(o, h1, h2, h3) gives the provider's
\* permission on each of the three handles to the registry itself and to o,
\* gives no other permission, and emits exactly one Stored(id, o) event
\* carrying the newly assigned id.
C17_StorePermissionsAndEvent ==
  [][(lastCall'.fn = "storeEncryptedIPFSData" /\ lastCall'.revert = NoRevert)
       => LET h == StoreArgs(lastCall')
              o == lastCall'.sender
              given == {h[1], h[2], h[3]} \X {ThisAddr, o}
          IN /\ given \subseteq acl'
             /\ acl' \ acl \subseteq given
             /\ acl \subseteq acl'
             /\ lastCall'.ret = _currentId'
             /\ events' = Append(events, [name |-> "IPFSDataStored",
                                          storageId |-> lastCall'.ret,
                                          user |-> o, by |-> o])]_vars

\* C17 witness: a second register by another user, of handles on which the
\* first owner already holds the permission.
C17_Witness ==
  /\ Succeeded("storeEncryptedIPFSData") /\ lastCall.ret = 2
  /\ _encryptedStorage[1].owner # lastCall.sender
  /\ <<StoreArgs(lastCall)[1], _encryptedStorage[1].owner>> \in acl
  /\ <<StoreArgs(lastCall)[1], ThisAddr>> \in acl
  /\ events[Len(events)].storageId = 2

\* The event a successful mutation is expected to emit.
ExpectedEvent(call) ==
  [name |-> CASE call.fn = "grantAccess" -> "AccessGranted"
              [] call.fn = "revokeAccess" -> "AccessRevoked"
              [] OTHER -> "IPFSDataStored",
   storageId |-> call.storageId,
   user |-> IF call.fn = "storeEncryptedIPFSData" THEN call.sender
            ELSE call.user,
   by |-> call.sender]

\* C18: the event log is append-only and each successful mutation appends
\* exactly one event: grantAccess appends AccessGranted(id, reader, actor),
\* also for a repeated grant, and revokeAccess appends
\* AccessRevoked(id, reader, actor), where actor is owner(id); earlier events
\* are never altered or removed, and nothing else appends an event.
C18_EventLog ==
  [][/\ Len(events') >= Len(events)
     /\ SubSeq(events', 1, Len(events)) = events
     /\ ( /\ lastCall'.fn \in {"grantAccess", "revokeAccess",
                               "storeEncryptedIPFSData"}
          /\ lastCall'.revert = NoRevert ) =>
          /\ events' = Append(events, ExpectedEvent(lastCall'))
          /\ lastCall'.sender = _encryptedStorage'[lastCall'.storageId].owner
     /\ ~( /\ lastCall'.fn \in {"grantAccess", "revokeAccess",
                                "storeEncryptedIPFSData"}
           /\ lastCall'.revert = NoRevert ) => events' = events]_vars

\* C18 witness: a grant to a reader and its revocation were logged after
\* the Stored event, each naming the owner as actor.
C18_Witness ==
  /\ Succeeded("revokeAccess") /\ Len(events) = 3
  /\ events[1] = [name |-> "IPFSDataStored", storageId |-> 1,
                  user |-> lastCall.sender, by |-> lastCall.sender]
  /\ events[2] = [name |-> "AccessGranted", storageId |-> 1,
                  user |-> lastCall.user, by |-> lastCall.sender]
  /\ events[3] = [events[2] EXCEPT !.name = "AccessRevoked"]
  /\ lastCall.user \in Users \ {lastCall.sender}
  /\ acl # {}

\* C19 as stated: for every 46-byte identifier x, decode(encode(x)) equals
\* x, for the contract codec and for the frontend codec.
C19_RoundTrip ==
  (cStep = "decoded" /\ Len(Utf8(cHash)) = HashLen) =>
    /\ cContract.revert = NoRevert /\ cContract.hash = Utf8(cHash)
    /\ cFrontend.revert = NoRevert /\ cFrontend.hash = cHash

\* C20 as stated: encode fails with InvalidLength exactly when the
\* identifier, after removal of the optional "Qm" prefix, is shorter than 46
\* bytes (as "short" is), and succeeds for every input of 46 bytes or more.
C20_LengthRejection ==
  cStep = "encoded" =>
    \A r \in {cContract, cFrontend} :
      /\ r.revert \in InvalidLength <=>
           Len(Utf8(removeQmPrefix(cHash))) < HashLen
      /\ Len(Utf8(cHash)) >= HashLen => r.revert = NoRevert
      /\ cHash = ShortHash => r.revert \in InvalidLength


\* The prefixes of the input string that are 46 bytes long.
Prefixes46 ==
  { SubSeq(cHash, 1, k) : k \in { j \in 1..Len(cHash) :
                                    Len(Utf8(SubSeq(cHash, 1, j))) = HashLen } }

\* C21 as stated: for every 46-byte x and every suffix y, encode(x ++ y)
\* succeeds and equals encode(x), in the contract codec and in the frontend
\* codec.
C21_SuffixIgnored ==
  cStep = "encoded" =>
    \A x \in Prefixes46 :
      /\ cContract.revert = NoRevert
      /\ cContract = ContractHashToAddresses(Utf8(x))
      /\ cFrontend.revert = NoRevert
      /\ cFrontend = FrontendHashToAddresses(x)


\* The bytes a conversion function packs: the contract takes the bytes of
\* its argument, the frontend those of the argument without a leading "Qm".
ContractBytes == Utf8(cHash)
FrontendBytes == Utf8(removeQmPrefix(cHash))

\* The three values a successful conversion returned, as 20 bytes each.
ContractValues == cContract.addrs
FrontendValues ==
  [w \in 1..3 |-> ParseAddress(cFrontend.addrs[w])]

\* The three windows of the packed bytes: offset of the first byte and
\* number of bytes.
WindowStart == <<0, AddrBytes, 2 * AddrBytes>>
WindowLen == <<AddrBytes, AddrBytes, TailBytes>>

\* Byte i of window w (both counted from 0).
WindowByte(bytes, w, i) == bytes[WindowStart[w] + i + 1]

\* Both conversion functions accepted the input string.
BothEncoded ==
  /\ cStep = "encoded"
  /\ cContract.revert = NoRevert
  /\ cFrontend.revert = NoRevert

\* C22 as stated: byte i of a window occupies bits [8i, 8i + 8) of the
\* value, counted from the least significant end, so byte 0 of the window is
\* the low-order byte.
C22_Original ==
  cStep = "encoded" =>
    \A w \in 1..3 : \A i \in 0..(WindowLen[w] - 1) :
      /\ cContract.revert = NoRevert =>
           ByteAt(ContractValues[w], i) = WindowByte(ContractBytes, w, i)
      /\ cFrontend.revert = NoRevert =>
           ByteAt(FrontendValues[w], i) = WindowByte(FrontendBytes, w, i)

\* C22, amended: byte i of a window of n bytes occupies bits
\* [8(n-1-i), 8(n-i)) of the value, counted from the least significant end:
\* the last byte of the window is the low-order byte, byte 0 of the window
\* is byte n-1 of the value, and all higher bytes of the value are zero.
C22_PackingOrder ==
  cStep = "encoded" =>
    \A w \in 1..3 : \A i \in 0..(AddrBytes - 1) :
      /\ cContract.revert = NoRevert =>
           ByteAt(ContractValues[w], i) =
             IF i < WindowLen[w]
             THEN WindowByte(ContractBytes, w, WindowLen[w] - 1 - i) ELSE 0
      /\ cFrontend.revert = NoRevert =>
           ByteAt(FrontendValues[w], i) =
             IF i < WindowLen[w]
             THEN WindowByte(FrontendBytes, w, WindowLen[w] - 1 - i) ELSE 0

\* Both functions packed the hash of the decryption test, whose windows
\* begin and end with different bytes.
C22_Witness ==
  /\ BothEncoded
  /\ cHash = DecryptTestHash
  /\ \A w \in 1..3 :
       WindowByte(ContractBytes, w, 0)
         # WindowByte(ContractBytes, w, WindowLen[w] - 1)


\* bytes with every byte outside window w replaced by c.
Masked(bytes, w, c) ==
  [k \in 1..Len(bytes) |->
     IF k > WindowStart[w] /\ k <= WindowStart[w] + WindowLen[w]
     THEN bytes[k] ELSE c]

\* The bytes of window w, left-padded with zero bytes to the width of an
\* address.
PaddedWindow(bytes, w) ==
  [k \in 1..(AddrBytes - WindowLen[w]) |-> 0]
  \o SubSeq(bytes, WindowStart[w] + 1, WindowStart[w] + WindowLen[w])

PairwiseDistinct(values) ==
  /\ values[1] # values[2]
  /\ values[1] # values[3]
  /\ values[2] # values[3]

\* C24 as stated: encode of the example hash
\* QmYwAPJzv5CZsnA625s3Xf2nemtYgPpHdWEz79ojWnPbdG yields three pairwise
\* distinct values, in the contract codec and in the frontend codec.
C24_ExampleDistinct ==
  (cStep = "encoded" /\ cHash = ExampleHash) =>
    /\ cContract.revert = NoRevert
    /\ PairwiseDistinct(cContract.addrs)
    /\ cFrontend.revert = NoRevert
    /\ PairwiseDistinct(cFrontend.addrs)


\* The 58-symbol alphabet: the digits and letters without the visually
\* ambiguous characters '0', 'I', 'O' and 'l'.
Alphabet58 ==
  ((48..57) \cup (65..90) \cup (97..122)) \ {48, 73, 79, 108}

\* Every character of str is in the alphabet.
InAlphabet(str) == \A k \in 1..Len(str) : str[k] \in Alphabet58

\* C25: the validator answers true exactly when the candidate is 48
\* characters long, starts with "Qm" and its remaining 46 characters are in
\* the 58-symbol alphabet, or is 46 characters long and all in that
\* alphabet; the alphabet has 58 symbols.
C25_WellFormed ==
  /\ Cardinality(Alphabet58) = 58
  /\ cStep = "validated" =>
       (cValid <=>
          \/ /\ Len(cHash) = 48
             /\ StartsWithQm(cHash)
             /\ InAlphabet(SubSeq(cHash, 3, 48))
          \/ /\ Len(cHash) = 46
             /\ InAlphabet(cHash))

\* The validator accepted a 48-character candidate with the marker.
C25_Witness ==
  /\ cStep = "validated"
  /\ cValid
  /\ Len(cHash) = 48
  /\ StartsWithQm(cHash)


\* C26 as stated: on every input string the frontend ipfsHashToAddresses
\* and the contract's ipfsHashToAddresses either both reject the input or
\* both return the same three address values.
C26_FrontendMatchesContract ==
  cStep = "encoded" =>
    /\ cFrontend.revert # NoRevert <=> cContract.revert # NoRevert
    /\ BothEncoded => \A w \in 1..3 : FrontendValues[w] = ContractValues[w]


\* C27 as stated: for every hash string the contract's ipfsHashToAddresses
\* accepts, addressesToIPFSHash applied to its result returns a string of
\* the same length that equals the hash string.
C27_ContractRoundTrip ==
  (cStep = "decoded" /\ cContract.revert = NoRevert) =>
    /\ Len(cContract.hash) = Len(ContractBytes)
    /\ cContract.hash = ContractBytes


\* C28 as stated: a successful storeIPFSHash stores a new entry: the
\* counter read by getCurrentId increases by one (to 1 on a fresh registry)
\* and the returned storage id is the new counter value.
C28_StoreIPFSHash ==
  [][(lastCall'.fn = "storeIPFSHash" /\ lastCall'.revert = NoRevert) =>
       /\ _currentId' = _currentId + 1
       /\ lastCall'.ret = _currentId'
       /\ _encryptedStorage'[_currentId'].exists]_vars


\* C29 as stated: for every hash accepted by isValidIPFSHash that the
\* hook's storeIPFSHash registered, a successful retrieveIPFSHash of its
\* entry by a reader with access returns that hash.
C29_EndToEnd ==
  (cStep = "retrieved" /\ isValidIPFSHash(cHash)) => cFrontend.hash = cHash


\* C31: revokeAccess(o, id, r) called by the owner o of an existing entry
\* succeeds for every identity r, the null identity and the owner included,
\* and appends AccessRevoked(id, r, o); when r was not authorized, no
\* identity's access changes.
C31_RevokeAlwaysAccepted ==
  [][\A i \in StorageIds :
       ( /\ lastCall'.fn = "revokeAccess"
         /\ lastCall'.storageId = i
         /\ _encryptedStorage[i].exists
         /\ _encryptedStorage[i].owner = lastCall'.sender ) =>
         /\ lastCall'.revert = NoRevert
         /\ events' = Append(events, [name |-> "AccessRevoked",
                                      storageId |-> i,
                                      user |-> lastCall'.user,
                                      by |-> lastCall'.sender])
         /\ ( \/ ~_authorizedUsers[i][lastCall'.user]
              \/ lastCall'.user = lastCall'.sender ) =>
              \A j \in StorageIds, u \in Addresses :
                hasAccessRet(j, u)' = hasAccessRet(j, u)]_vars

\* C31 witness: the owner of entry 1 revoked itself and then the null
\* identity, neither of which had been granted; both calls were logged and
\* the owner still has access.
C31_Witness ==
  /\ Succeeded("revokeAccess")
  /\ lastCall.user = NullAddr
  /\ Len(events) = 3
  /\ events[2] = [name |-> "AccessRevoked", storageId |-> 1,
                  user |-> lastCall.sender, by |-> lastCall.sender]
  /\ events[3] = [name |-> "AccessRevoked", storageId |-> 1,
                  user |-> NullAddr, by |-> lastCall.sender]
  /\ hasAccessRet(1, lastCall.sender)


\* The positions in the event log of the successful grantAccess and
\* revokeAccess calls on the pair (storageId, user).
AccessEvents(storageId, user) ==
  { k \in 1..Len(events) :
      /\ events[k].name \in {"AccessGranted", "AccessRevoked"}
      /\ events[k].storageId = storageId
      /\ events[k].user = user }

\* The most recent successful grantAccess or revokeAccess on the pair was a
\* grantAccess.
LastWasGrant(storageId, user) ==
  /\ AccessEvents(storageId, user) # {}
  /\ \E k \in AccessEvents(storageId, user) :
       /\ \A m \in AccessEvents(storageId, user) : m <= k
       /\ events[k].name = "AccessGranted"

\* C32: after any sequence of operations, for every existing entry id and
\* every identity r other than owner(id), hasAccess(id, r) is true if and
\* only if the most recent successful grantAccess or revokeAccess on
\* (id, r) was a grantAccess.
C32_LastOperationWins ==
  \A i \in StorageIds, r \in Addresses :
    (_encryptedStorage[i].exists /\ r # _encryptedStorage[i].owner) =>
      (hasAccessRet(i, r) <=> LastWasGrant(i, r))

\* C32 witness: a reader of entry 1 was revoked and then granted, and has
\* access.
C32_Witness ==
  /\ Len(events) = 3
  /\ events[2].name = "AccessRevoked"
  /\ events[3] = [events[2] EXCEPT !.name = "AccessGranted"]
  /\ events[3].user # _encryptedStorage[events[3].storageId].owner
  /\ hasAccessRet(events[3].storageId, events[3].user)


\* C33: a successful grantAccess or revokeAccess on (id, r) leaves
\* hasAccess unchanged for every other pair and leaves the counter, all
\* entries and all owner-index lists unchanged; a successful register
\* leaves every existing entry, its authorization set and every other
\* identity's owner-index list unchanged.
C33_OperationsAreLocal ==
  [][/\ ( /\ lastCall'.fn \in {"grantAccess", "revokeAccess"}
          /\ lastCall'.revert = NoRevert ) =>
          /\ \A j \in StorageIds, u \in Addresses :
               (j # lastCall'.storageId \/ u # lastCall'.user) =>
                 hasAccessRet(j, u)' = hasAccessRet(j, u)
          /\ UNCHANGED <<_currentId, _encryptedStorage, _userStorageIds>>
     /\ ( /\ lastCall'.fn = "storeEncryptedIPFSData"
          /\ lastCall'.revert = NoRevert ) =>
          /\ \A j \in StorageIds :
               _encryptedStorage[j].exists =>
                 /\ _encryptedStorage'[j] = _encryptedStorage[j]
                 /\ _authorizedUsers'[j] = _authorizedUsers[j]
                 /\ \A u \in Addresses :
                      hasAccessRet(j, u)' = hasAccessRet(j, u)
          /\ \A u \in Addresses :
               u # lastCall'.sender =>
                 _userStorageIds'[u] = _userStorageIds[u]]_vars

\* C33 witness: with two entries of one owner, a reader was granted entry 1
\* and has no access to entry 2.
C33_Witness ==
  /\ Succeeded("grantAccess")
  /\ _currentId = 2
  /\ lastCall.storageId = 1
  /\ lastCall.user # lastCall.sender
  /\ hasAccessRet(1, lastCall.user)
  /\ ~hasAccessRet(2, lastCall.user)
  /\ hasAccessRet(2, lastCall.sender)


\* C34: in every reachable state the null identity address(0) is in no
\* entry's authorization set, owns no entry and has an empty owner-index
\* list, so hasAccess(id, address(0)) is false for every id.
C34_NullIdentityHasNothing ==
  /\ \A i \in StorageIds :
       /\ ~_authorizedUsers[i][NullAddr]
       /\ _encryptedStorage[i].exists =>
            _encryptedStorage[i].owner # NullAddr
       /\ ~hasAccessRet(i, NullAddr)
  /\ _userStorageIds[NullAddr] = <<>>

\* C34 witness: the owner of an existing entry tried to grant access to
\* address(0) and was refused.
C34_Witness ==
  /\ lastCall.fn = "grantAccess"
  /\ lastCall.user = NullAddr
  /\ lastCall.revert = ErrInvalidUser
  /\ _encryptedStorage[lastCall.storageId].owner = lastCall.sender


\* C35 as stated: every candidate string that isValidIPFSHash accepts is
\* accepted by the frontend ipfsHashToAddresses, 46-character candidates
\* that begin with "Qm" included.
C35_ValidImpliesEncodable ==
  (cStep = "encoded" /\ isValidIPFSHash(cHash)) =>
    cFrontend.revert = NoRevert


\* C36: a callback registered through onFHEInitialized before initialization
\* and not unsubscribed is invoked exactly once, whatever the number and the
\* interleaving of initFHE() calls: never more than once, and once as soon
\* as the module is initialized.
C36_NotifiedExactlyOnce ==
  \A c \in CallbackIds :
    (callbacks[c].early /\ callbacks[c].sub = "subscribed") =>
      /\ callbacks[c].invoked <= 1
      /\ isInitialized => callbacks[c].invoked = 1

\* C37: at most one FHE instance is ever created, and every resolved
\* initFHE() call returns the same instance.
C37_SingleInstance ==
  /\ instances <= 1
  /\ \A p, q \in InitCallIds :
       (initCalls[p].pc = "resolved" /\ initCalls[q].pc = "resolved") =>
         initCalls[p].ret = initCalls[q].ret

\* C38: once the unsubscribe function returned by onFHEInitialized(cb) has
\* been called, no later step invokes cb, whether the subscription was made
\* before or after initialization.
C38_UnsubscribedNeverInvoked ==
  [][\A c \in CallbackIds :
       callbacks[c].sub = "unsubscribed" =>
         callbacks'[c].invoked = callbacks[c].invoked]_vars

\* C39: the module holds an instance if and only if its initialized flag is
\* set, and a call to encryptAddresses or decryptAddresses made while
\* isFHEInitialized() is false is rejected with 'FHE not initialized. Call
\* initFHE() first.' and uses no instance.
C39_GuardedByInitialization ==
  /\ (fheInstance # NoInstance) <=> isInitialized
  /\ (fheLast.fn # "none" /\ ~fheLast.initialized) =>
       /\ fheLast.revert = ErrFheNotInitialized
       /\ fheLast.instance = NoInstance

\* C39 case: both operations are called before initialization has completed,
\* while an initFHE() call is awaiting createInstance.
C39_Witness ==
  /\ fheLast.fn = "decryptAddresses"
  /\ ~fheLast.initialized
  /\ fheLast.revert = ErrFheNotInitialized
  /\ \E p \in InitCallIds : initCalls[p].pc = "awaitCreateInstance"

=============================================================================
